---- MODULE Spec2Model ----
(***************************************************************************)
(* A model of pdftranscript/transcript.py: the passes that turn the        *)
(* positioned line fragments of a pdf2htmlEX page into semantic mark-up.   *)
(* Each pass has a specification of its own; the variable of a pass that   *)
(* a specification does not run stays at Off.                              *)
(*                                                                         *)
(* A class attribute is a sequence of tokens [c |-> category, n |-> id];   *)
(* a text is a sequence of characters (one-character strings, with the     *)
(* names BULLET, CIRCLE, SQUARE for the three bullet glyphs).              *)
(***************************************************************************)
EXTENDS Integers, Sequences, FiniteSets, TLC

VARIABLES sem, gd, hd, tb, ws, hl

vars == <<sem, gd, hd, tb, ws, hl>>

Off == [pc |-> "off"]

\* ------------------------------------------------------------ configuration

MAX_LINE_HEIGHT == 18

paper_height == 850

BR == TRUE

BULLETS == {"BULLET", "CIRCLE", "SQUARE"}

\* ------------------------------------------------------------------ bounds

\* lines one run of the block pass goes through
MaxLines == 3

\* lines one run of grid_data goes through
MaxGrid == 2

\* elements of the trees given to wrap_set
WrapNodes == 5

\* pages of the documents given to remove_headers
HdPages == 3

\* items (lines and clip boxes) of the documents given to reconstruct_tables
MaxItems == 3

\* font-size classes of the stylesheets given to heading_levels
MaxFs == 3

\* Python's None, among element ids
None == 0

\* ----------------------------------------------------------- class tokens

Tok(c, n) == [c |-> c, n |-> n]

\* the value that stands for "this token is not in the class attribute"
NoTok == -1

\* el.attrib['class'].split(' ' + class_) has a second piece exactly when a
\* token of the category follows the first token of the attribute
HasTok(class_, cls) == \E i \in 2..Len(cls) : cls[i].c = class_

\* classn raises IndexError when HasTok is false: callers test HasTok first
classn(class_, cls) ==
    LET i == CHOOSE k \in 2..Len(cls) :
                 /\ cls[k].c = class_
                 /\ \A j \in 2..(k - 1) : cls[j].c # class_
    IN  cls[i].n

\* dimensions[dim_type].get(classn(dim_type, el)) or 0, on a lookup table
get_dimension(table, cls, dim_type) ==
    LET n == classn(dim_type, cls)
    IN  IF n \in DOMAIN table[dim_type] THEN table[dim_type][n] ELSE 0

\* ------------------------------------------------------------------- text

IsSpace(ch) == ch = " "

IsDigit(ch) == ch \in {"0", "1", "2"}

RECURSIVE lstrip(_)
lstrip(s) == IF s # <<>> /\ IsSpace(Head(s)) THEN lstrip(Tail(s)) ELSE s

RECURSIVE rstrip(_)
rstrip(s) ==
    IF s # <<>> /\ IsSpace(s[Len(s)]) THEN rstrip(SubSeq(s, 1, Len(s) - 1)) ELSE s

\* str.strip()
strip(s) == rstrip(lstrip(s))

\* [1 for b in BULLETS if txt.startswith(b)]
starts_with_bullet(txt) == txt # <<>> /\ txt[1] \in BULLETS

\* ------------------------------------------------- semanticize: the lines

\* the class attribute of a .t line; a category given as NoTok is left out
LineClass(x, h, y, fs, fc) ==
    <<Tok("t", 0)>>
      \o (IF x = NoTok THEN <<>> ELSE <<Tok("x", x)>>)
      \o (IF h = NoTok THEN <<>> ELSE <<Tok("h", h)>>)
      \o (IF y = NoTok THEN <<>> ELSE <<Tok("y", y)>>)
      \o (IF fs = NoTok THEN <<>> ELSE <<Tok("fs", fs)>>)
      \o (IF fc = NoTok THEN <<>> ELSE <<Tok("fc", fc)>>)

\* a blank line (white space only), a plain line, a bulleted line
SemTexts == {<<" ">>, <<"a">>, <<"BULLET", "a">>}

SemLines ==
    { [class |-> LineClass(x, h, yc, fs, yc), txt |-> t] :
        x \in {0, 1}, h \in {0, 1, NoTok}, yc \in {0, 1}, fs \in {0, 1, NoTok},
        t \in SemTexts }

\* the height tables a run may be given: class 1 is 18 px or 19 px above
\* class 0, or has no rule in the stylesheet
SemDimensions ==
    { [h |-> (0 :> 10) @@ (1 :> 28)],
      [h |-> (0 :> 10) @@ (1 :> 29)],
      [h |-> (0 :> 10)] }

\* the heading-level maps a run may be given (font-size class -> level)
SemHLevels == { <<>>, (1 :> 1) }

\* ---------------------------------------------- semanticize: one iteration

\* classes = [c for c in classes if c[0] != 'y' and c[0:2] != 'fc']
look_no_filter(cls) == cls

look_of(cls) == SelectSeq(cls, LAMBDA c : c.c # "y" /\ c.c # "fc")

\* margin = line_height > MAX_LINE_HEIGHT
margin_of(line_height) == line_height > MAX_LINE_HEIGHT

\* append = (new_look == p_space == margin is False)
default_append(new_look, p_space, margin) ==
    /\ new_look = p_space
    /\ p_space = margin
    /\ margin = FALSE

\* indent = 'x0' not in look
indent_of(look) == ~ \E i \in 1..Len(look) : look[i].c = "x" /\ look[i].n = 0

\* the tag and the append flag after the LI and the heading rules
li_rule_no_bullet(txt, indent, p_tag, append) ==
    IF indent /\ p_tag = "li" THEN [tag |-> "li", append |-> TRUE]
    ELSE [tag |-> "p", append |-> append]

li_rule(txt, indent, p_tag, append) ==
    IF starts_with_bullet(txt) THEN [tag |-> "li", append |-> FALSE]
    ELSE IF indent /\ p_tag = "li" THEN [tag |-> "li", append |-> TRUE]
    ELSE [tag |-> "p", append |-> append]

\* f'h{level}'
HTag(level) == <<"h1", "h2", "h3", "h4", "h5", "h6">>[level]

heading_rule(h_levels, size, r) ==
    IF size \in DOMAIN h_levels
    THEN [tag |-> HTag(h_levels[size]), append |-> FALSE]
    ELSE r

\* the body of the loop over dom.cssselect('.t'), for a line that carries an
\* h and an fs token
Iterate(s, l) ==
    LET look        == look_of(l.class)
        new_look    == s.p_look # look
        height      == get_dimension(s.dimensions, l.class, "h")
        line_height == s.p_height - height
        margin      == margin_of(line_height)
        space       == strip(l.txt) = <<>>
        append0     == default_append(new_look, s.p_space, margin)
        indent      == indent_of(look)
        r           == heading_rule(s.h_levels, classn("fs", l.class),
                                    li_rule(l.txt, indent, s.p_tag, append0))
        nonblank    == strip(l.txt) # <<>>
        i           == s.i + 1
    IN  [s EXCEPT
           !.i = i,
           !.l = l,
           \* the values of the previous iteration, kept for the properties
           !.q_l = s.l, !.q_height = s.p_height, !.q_space = s.p_space,
           !.q_tag = s.p_tag, !.q_block = s.block, !.q_box = s.box,
           !.q_boxTag = s.boxTag,
           \* the locals of this iteration
           !.append = r.append, !.tag = r.tag,
           \* the tree: box, its tag, where the line went, whether a <br> went
           \* in before it
           !.box = IF nonblank /\ ~r.append THEN i ELSE s.box,
           !.boxTag = IF nonblank /\ ~r.append THEN r.tag ELSE s.boxTag,
           !.block = IF ~nonblank THEN 0 ELSE IF r.append THEN s.box ELSE i,
           !.br = nonblank /\ r.append /\ BR,
           \* a merge while box is still the integer 0 would raise
           !.pc = IF nonblank /\ r.append /\ s.box = 0 THEN "raised" ELSE "loop",
           \* saved for the next iteration
           !.p_space = space, !.p_height = height, !.p_look = look,
           !.p_tag = r.tag]

\* the line that stands for "no line yet"
NoLine == [class |-> <<>>, txt |-> <<>>]

\* p_look = p_height = p_space = p_tag = box = 0; the 0 of p_look and p_tag is
\* written as a value no look and no tag equals, the 0 of p_space as FALSE
SemInit ==
    /\ \E d \in SemDimensions, m \in SemHLevels :
         sem = [pc |-> "loop", dimensions |-> d, h_levels |-> m, i |-> 0,
                l |-> NoLine,
                p_look |-> <<>>, p_height |-> 0, p_space |-> FALSE, p_tag |-> "0",
                box |-> 0, boxTag |-> "0", block |-> 0, br |-> FALSE,
                q_l |-> NoLine, q_height |-> 0, q_space |-> FALSE, q_tag |-> "0",
                q_block |-> 0, q_box |-> 0, q_boxTag |-> "0",
                append |-> FALSE, tag |-> "0"]
    /\ gd = Off /\ hd = Off /\ tb = Off /\ ws = Off /\ hl = Off

\* one iteration of the loop on a line with the tokens it reads
SemLine ==
    /\ sem.pc = "loop" /\ sem.i < MaxLines
    /\ \E l \in SemLines :
         /\ HasTok("h", l.class) /\ HasTok("fs", l.class)
         /\ sem' = Iterate(sem, l)
    /\ UNCHANGED <<gd, hd, tb, ws, hl>>

\* one iteration on a line without an h or an fs token: classn raises
\* IndexError and semanticize ends there
SemRaise ==
    /\ sem.pc = "loop" /\ sem.i < MaxLines
    /\ \E l \in SemLines :
         /\ ~HasTok("h", l.class) \/ ~HasTok("fs", l.class)
         /\ sem' = [sem EXCEPT !.pc = "raised", !.l = l, !.i = sem.i + 1]
    /\ UNCHANGED <<gd, hd, tb, ws, hl>>

SemNext == SemLine \/ SemRaise

SpecSem == SemInit /\ [][SemNext]_vars

\* ------------------------------------------- semanticize: the properties

\* the last two lines both went through the loop body
SemPair == sem.pc = "loop" /\ sem.i >= 2

\* the class tokens of a line without the vertical-position and the
\* font-colour tokens
Signature(cls) == SelectSeq(cls, LAMBDA c : c.c \notin {"y", "fc"})

SameSignature == Signature(sem.l.class) = Signature(sem.q_l.class)

HeightDelta == sem.q_height - sem.p_height

CurNonBlank == strip(sem.l.txt) # <<>>

CurBullet == sem.l.txt # <<>> /\ sem.l.txt[1] \in BULLETS

PrevNonBlank == strip(sem.q_l.txt) # <<>>

PrevBullet == sem.q_l.txt # <<>> /\ sem.q_l.txt[1] \in BULLETS

CurIsHeading == classn("fs", sem.l.class) \in DOMAIN sem.h_levels

\* the line has no x0 token
CurIndented == Tok("x", 0) \notin {sem.l.class[k] : k \in 1..Len(sem.l.class)}

\* the line was moved into the block the previous line is in
MergedIntoPrev == sem.append /\ sem.block # 0 /\ sem.block = sem.q_block

\* the line was moved into the block that was current before it
MergedIntoBox == sem.append /\ sem.block # 0 /\ sem.block = sem.q_box

\* the line is the anchor of a block of its own
NewBlock == ~sem.append /\ sem.block = sem.i /\ sem.box = sem.i

\* C1 as stated: two adjacent non-blank, unbulleted lines of one signature
\* and a height delta of at most 18 are merged, and the second starts a new
\* block as soon as a blank line precedes it, its signature differs or the
\* height delta is above 18.
C1_Original ==
    (SemPair /\ CurNonBlank /\ ~CurBullet /\ ~PrevBullet) =>
        /\ (PrevNonBlank /\ SameSignature /\ HeightDelta <= MAX_LINE_HEIGHT)
              => MergedIntoPrev
        /\ (~PrevNonBlank \/ ~SameSignature \/ HeightDelta > MAX_LINE_HEIGHT)
              => NewBlock

\* C1 as amended: the merge needs the font-size class of the lines to be
\* outside the heading-level map, and the split does not happen for a line
\* without the x0 class that follows a line tagged li.
C1_Amended ==
    (SemPair /\ CurNonBlank /\ ~CurBullet /\ ~PrevBullet) =>
        /\ (PrevNonBlank /\ SameSignature /\ HeightDelta <= MAX_LINE_HEIGHT
               /\ ~CurIsHeading)
              => MergedIntoPrev
        /\ ((~PrevNonBlank \/ ~SameSignature \/ HeightDelta > MAX_LINE_HEIGHT)
               /\ ~(CurIndented /\ sem.q_tag = "li"))
              => NewBlock

\* two lines that differ in their y and fc tokens only, merged
C1_Witness ==
    /\ SemPair /\ CurNonBlank /\ ~CurBullet /\ ~PrevBullet /\ PrevNonBlank
    /\ SameSignature /\ sem.l.class # sem.q_l.class
    /\ MergedIntoPrev

\* C10 as stated: a bulleted non-blank line starts a new list item, and an
\* unbulleted non-blank line without the x0 class that follows a list item
\* is merged into that list item.
C10_Original ==
    (sem.pc = "loop" /\ sem.i >= 1 /\ CurNonBlank) =>
        /\ CurBullet => (NewBlock /\ sem.boxTag = "li")
        /\ (~CurBullet /\ CurIndented /\ sem.q_tag = "li")
              => (MergedIntoBox /\ sem.boxTag = "li")

\* C10 as amended: the two list rules hold for a line whose font-size class
\* is outside the heading-level map; a line whose class is in the map starts
\* a heading, bulleted or not; without a bullet and outside the continuation
\* case the default decision stands.
C10_Amended ==
    (sem.pc = "loop" /\ sem.i >= 1 /\ CurNonBlank) =>
        /\ CurIsHeading =>
              (NewBlock /\ sem.boxTag = HTag(sem.h_levels[classn("fs", sem.l.class)]))
        /\ (~CurIsHeading /\ CurBullet) => (NewBlock /\ sem.boxTag = "li")
        /\ (~CurIsHeading /\ ~CurBullet /\ CurIndented /\ sem.q_tag = "li")
              => (MergedIntoBox /\ sem.boxTag = "li" /\ sem.tag = "li")
        /\ (~CurIsHeading /\ ~CurBullet /\ ~(CurIndented /\ sem.q_tag = "li"))
              => /\ sem.append <=>
                      (sem.i >= 2 /\ SameSignature /\ ~sem.q_space
                         /\ HeightDelta <= MAX_LINE_HEIGHT)
                 /\ sem.tag = "p"

\* a line of another look, right after a blank line, forced into the list item
C10_Witness ==
    /\ SemPair /\ CurNonBlank /\ ~CurBullet /\ CurIndented /\ sem.q_tag = "li"
    /\ ~SameSignature /\ sem.q_space
    /\ MergedIntoBox /\ sem.boxTag = "li"

\* ------------------------------------------------------------- grid_data

\* int(s, 16) on a sequence of hex digits
HexDigit(ch) ==
    CASE ch = "0" -> 0 [] ch = "1" -> 1 [] ch = "2" -> 2 [] ch = "a" -> 10
      [] ch = "f" -> 15

RECURSIVE int16(_)
int16(s) == IF s = <<>> THEN 0 ELSE 16 * int16(SubSeq(s, 1, Len(s) - 1)) + HexDigit(s[Len(s)])

\* the class ids a .t line of the grid pass may carry
GridIds == {0, 1, NoTok}

\* the class attribute of a clip box (.c) and of a page (.pc)
ClipClass(x, y) ==
    <<Tok("c", 0)>>
      \o (IF x = NoTok THEN <<>> ELSE <<Tok("x", x)>>)
      \o (IF y = NoTok THEN <<>> ELSE <<Tok("y", y)>>)
      \o <<Tok("w", 0), Tok("h", 0)>>

PageClass(hex) == <<Tok("pc", 0), Tok("pc", hex)>>

\* the parents a line may have: the page itself, or a clip box in the page
GridParents ==
    {[class |-> PageClass(<<"1">>), x |-> NoTok, y |-> NoTok, elem |-> 2]}
      \cup {[class |-> ClipClass(x, y), x |-> x, y |-> y, elem |-> 3] :
               x \in GridIds, y \in GridIds}

\* the pages: none above the line, or a .pc whose number is hexadecimal
GridPages == {<<>>, <<"2">>, <<"1", "0">>, <<"a">>}

\* a line with the ids of its tokens, its parent and the .pc above it
GridLines ==
    { [class |-> LineClass(x, h, y, 0, 0), x |-> x, y |-> y, h |-> h,
       txt |-> <<"a">>, parent |-> par, pc |-> pg, elem |-> 4] :
        x \in GridIds, y \in GridIds, h \in GridIds, par \in GridParents,
        pg \in GridPages }

\* the tables a run may be given; class 1 of a category may have no rule
GridDimensions ==
    { [x |-> (0 :> 5) @@ (1 :> 50), y |-> (0 :> 700) @@ (1 :> 720),
       h |-> (0 :> 10) @@ (1 :> 20)],
      [x |-> (0 :> 5), y |-> (0 :> 700), h |-> (0 :> 10)] }

\* parent(l).attrib.get('class', '').startswith('c ')
is_clipbox(cls) == Len(cls) >= 2 /\ cls[1].c = "c"

\* the tokens grid_data reads with classn: those of the line, then those of
\* its clip box
grid_reads_ok(l) ==
    /\ HasTok("x", l.class) /\ HasTok("y", l.class) /\ HasTok("h", l.class)
    /\ is_clipbox(l.parent.class) =>
         (HasTok("x", l.parent.class) /\ HasTok("y", l.parent.class))

\* page = int(classn('pc', anc), 16) for the nearest .pc, 0 without one
grid_page(l) == IF l.pc = <<>> THEN 0 ELSE int16(l.pc)

\* x = get_dimension(l, 'x'), plus get_dimension(cb, 'x') under a clip box
grid_x(dimensions, l) ==
    IF is_clipbox(l.parent.class)
    THEN get_dimension(dimensions, l.parent.class, "x")
           + get_dimension(dimensions, l.class, "x")
    ELSE get_dimension(dimensions, l.class, "x")

\* y = bottom + height, replaced by get_dimension(cb, 'y') under a clip box,
\* then turned into a top position
grid_y_adds_height(dimensions, l) ==
    IF is_clipbox(l.parent.class)
    THEN paper_height - (get_dimension(dimensions, l.parent.class, "y")
                           + get_dimension(dimensions, l.class, "h"))
    ELSE paper_height - (get_dimension(dimensions, l.class, "y")
                           + get_dimension(dimensions, l.class, "h"))

grid_y(dimensions, l) ==
    IF is_clipbox(l.parent.class)
    THEN paper_height - get_dimension(dimensions, l.parent.class, "y")
    ELSE paper_height - (get_dimension(dimensions, l.class, "y")
                           + get_dimension(dimensions, l.class, "h"))

\* the SimpleNamespace appended to data
grid_ns(dimensions, l) ==
    [page |-> grid_page(l), x |-> grid_x(dimensions, l), y |-> grid_y(dimensions, l),
     elem |-> l.elem,
     clipbox |-> IF is_clipbox(l.parent.class) THEN l.parent.elem ELSE None,
     lines |-> <<>>, text |-> l.txt]

NoNs == [page |-> 0, x |-> 0, y |-> 0, elem |-> 0, clipbox |-> 0, lines |-> <<>>,
         text |-> <<>>]

GridInit ==
    /\ \E d \in GridDimensions :
         gd = [pc |-> "loop", dimensions |-> d, n |-> 0, l |-> NoLine, ns |-> NoNs]
    /\ sem = Off /\ hd = Off /\ tb = Off /\ ws = Off /\ hl = Off

\* one iteration of the loop over dom.cssselect('.t')
GridLine ==
    /\ gd.pc = "loop" /\ gd.n < MaxGrid
    /\ \E l \in GridLines :
         /\ grid_reads_ok(l)
         /\ gd' = [gd EXCEPT !.l = l, !.ns = grid_ns(gd.dimensions, l), !.n = gd.n + 1]
    /\ UNCHANGED <<sem, hd, tb, ws, hl>>

\* an iteration on a line, or under a clip box, without a token classn looks
\* for: IndexError
GridRaise ==
    /\ gd.pc = "loop" /\ gd.n < MaxGrid
    /\ \E l \in GridLines :
         /\ ~grid_reads_ok(l)
         /\ gd' = [gd EXCEPT !.pc = "raised", !.l = l, !.n = gd.n + 1]
    /\ UNCHANGED <<sem, hd, tb, ws, hl>>

GridNext == GridLine \/ GridRaise

SpecGrid == GridInit /\ [][GridNext]_vars

\* ------------------------------------------------ grid_data: the properties

\* the pixel value of a class id, 0 without a rule for it
PxOr0(table, n) == IF n \in DOMAIN table THEN table[n] ELSE 0

GridResolved == gd.pc = "loop" /\ gd.n >= 1

GridClipped == gd.l.parent.class[1].c = "c"

\* C6 as stated: y is paper_height less bottom plus height, the bottom being
\* that of the clip box when there is one, and x is the left of the line, plus
\* the left of the clip box when there is one.
C6_Original ==
    GridResolved =>
        LET d == gd.dimensions
            bottom == IF GridClipped THEN PxOr0(d.y, gd.l.parent.y) ELSE PxOr0(d.y, gd.l.y)
        IN  /\ gd.ns.y = 850 - (bottom + PxOr0(d.h, gd.l.h))
            /\ gd.ns.x = IF GridClipped THEN PxOr0(d.x, gd.l.parent.x) + PxOr0(d.x, gd.l.x)
                         ELSE PxOr0(d.x, gd.l.x)

\* C6 as amended: under a clip box y is paper_height less the bottom of the
\* clip box alone, the height of the line is not added.
C6_Amended ==
    GridResolved =>
        LET d == gd.dimensions
        IN  /\ gd.ns.y = IF GridClipped THEN 850 - PxOr0(d.y, gd.l.parent.y)
                         ELSE 850 - (PxOr0(d.y, gd.l.y) + PxOr0(d.h, gd.l.h))
            /\ gd.ns.x = IF GridClipped THEN PxOr0(d.x, gd.l.parent.x) + PxOr0(d.x, gd.l.x)
                         ELSE PxOr0(d.x, gd.l.x)

\* a line of non-zero height and bottom resolved under a clip box
C6_Witness ==
    /\ GridResolved /\ GridClipped
    /\ PxOr0(gd.dimensions.h, gd.l.h) > 0 /\ PxOr0(gd.dimensions.y, gd.l.y) > 0
    /\ PxOr0(gd.dimensions.x, gd.l.parent.x) > 0
    /\ gd.ns.y = 850 - PxOr0(gd.dimensions.y, gd.l.parent.y)

\* C5 as stated: no line makes geometry resolution or the block pass raise;
\* a missing token or a missing rule counts as 0.
C5_Original == gd.pc # "raised" /\ sem.pc # "raised"

\* ------------------------------------------------------- the element tree

\* A tree is [tag, class, text, kids]: four sequences indexed by element;
\* element 1 is the root, kids[e] the children of e in order, text[e] the
\* text of e before its first child.

parent(d, e) ==
    IF \E p \in 1..Len(d.kids) : \E k \in 1..Len(d.kids[p]) : d.kids[p][k] = e
    THEN CHOOSE p \in 1..Len(d.kids) : \E k \in 1..Len(d.kids[p]) : d.kids[p][k] = e
    ELSE None

\* parent.index(e)
index(d, e) == CHOOSE k \in 1..Len(d.kids[parent(d, e)]) : d.kids[parent(d, e)][k] = e

\* e.getnext(): the sibling after e, None for a last child or a detached element
getnext(d, e) ==
    IF parent(d, e) = None THEN None
    ELSE IF index(d, e) = Len(d.kids[parent(d, e)]) THEN None
    ELSE d.kids[parent(d, e)][index(d, e) + 1]

\* Element(tag): a new element outside the tree; its id is Len(d.tag)
Element(d, tag) ==
    [tag |-> Append(d.tag, tag), class |-> Append(d.class, <<>>),
     text |-> Append(d.text, <<>>), kids |-> Append(d.kids, <<>>)]

\* e taken out of the children of its parent
detach(d, e) ==
    [d EXCEPT !.kids = [p \in 1..Len(d.kids) |->
                          SelectSeq(d.kids[p], LAMBDA c : c # e)]]

\* p.append(e): e moves to the end of the children of p
append(d, p, e) ==
    LET d1 == detach(d, e) IN [d1 EXCEPT !.kids[p] = Append(d1.kids[p], e)]

\* insert_after(e, a): parent(a).insert(parent(a).index(a) + 1, e)
insert_after(d, e, a) ==
    LET d1 == detach(d, e)
        p  == parent(d1, a)
        k  == index(d1, a)
    IN  [d1 EXCEPT !.kids[p] = SubSeq(d1.kids[p], 1, k) \o <<e>>
                                 \o SubSeq(d1.kids[p], k + 1, Len(d1.kids[p]))]

\* the elements of the subtree of e, in document order
RECURSIVE iter(_, _)
RECURSIVE iter_all(_, _)
iter(d, e) == <<e>> \o iter_all(d, d.kids[e])

iter_all(d, es) == IF es = <<>> THEN <<>> ELSE iter(d, Head(es)) \o iter_all(d, Tail(es))

\* dom.cssselect(tag): the elements of a tag, in document order
cssselect(d, tag) == SelectSeq(iter(d, 1), LAMBDA e : d.tag[e] = tag)

\* e.text_content(): the text of the subtree of e
RECURSIVE text_content(_, _)
RECURSIVE text_content_all(_, _)
text_content(d, e) == d.text[e] \o text_content_all(d, d.kids[e])

text_content_all(d, es) ==
    IF es = <<>> THEN <<>> ELSE text_content(d, Head(es)) \o text_content_all(d, Tail(es))

\* ---------------------------------------------------------------- wrap_set

\* one iteration of the loop of wrap_set on element e; w is [dom, nxt, box]
wrap_step(w, e, parent_tag) ==
    LET fresh == w.nxt # e
        box   == IF fresh THEN Len(w.dom.tag) + 1 ELSE w.box
        d1    == IF fresh THEN insert_after(Element(w.dom, parent_tag), box, e)
                 ELSE w.dom
        d2    == append(d1, box, e)
        nxt1  == getnext(d2, parent(d2, e))
        nxt   == IF nxt1 = None THEN getnext(d2, e) ELSE nxt1
    IN  [dom |-> d2, nxt |-> nxt, box |-> box]

\* wrap_set(dom, child_tag, parent_tag): the loop over a selection
RECURSIVE wrap_loop(_, _, _)
wrap_loop(w, sel, parent_tag) ==
    IF sel = <<>> THEN w
    ELSE wrap_loop(wrap_step(w, Head(sel), parent_tag), Tail(sel), parent_tag)

wrap_set(d, child_tag, parent_tag) ==
    wrap_loop([dom |-> d, nxt |-> 0, box |-> 0], cssselect(d, child_tag), parent_tag).dom

\* the trees of the wrap_set runs: WrapNodes elements, element e > 1 under an
\* element before it, every element but the root an li or a div
WrapTree(par, tags) ==
    [tag   |-> [e \in 1..WrapNodes |-> IF e = 1 THEN "body" ELSE tags[e]],
     class |-> [e \in 1..WrapNodes |-> <<>>],
     text  |-> [e \in 1..WrapNodes |-> <<>>],
     kids  |-> [p \in 1..WrapNodes |->
                  SelectSeq([k \in 1..WrapNodes |-> k], LAMBDA c : c > 1 /\ par[c] = p)]]

WrapTrees ==
    { WrapTree(par, tags) :
        par \in { f \in [2..WrapNodes -> 1..WrapNodes] : \A e \in 2..WrapNodes : f[e] < e },
        tags \in [2..WrapNodes -> {"li", "div"}] }

WrapInit ==
    /\ \E d \in WrapTrees :
         ws = [pc |-> "select", orig |-> d, dom |-> d, sel |-> <<>>, k |-> 0,
               nxt |-> 0, box |-> 0]
    /\ sem = Off /\ gd = Off /\ hd = Off /\ tb = Off /\ hl = Off

\* dom.cssselect(child_tag), evaluated once before the loop
WrapSelect ==
    /\ ws.pc = "select"
    /\ ws' = [ws EXCEPT !.sel = cssselect(ws.dom, "li"),
                        !.pc = IF cssselect(ws.dom, "li") = <<>> THEN "done" ELSE "loop"]
    /\ UNCHANGED <<sem, gd, hd, tb, hl>>

\* one iteration of the loop
WrapStep ==
    /\ ws.pc = "loop"
    /\ LET w == wrap_step([dom |-> ws.dom, nxt |-> ws.nxt, box |-> ws.box],
                          ws.sel[ws.k + 1], "ul")
       IN  ws' = [ws EXCEPT !.dom = w.dom, !.nxt = w.nxt, !.box = w.box,
                            !.k = ws.k + 1,
                            !.pc = IF ws.k + 1 = Len(ws.sel) THEN "done" ELSE "loop"]
    /\ UNCHANGED <<sem, gd, hd, tb, hl>>

WrapNext == WrapSelect \/ WrapStep

SpecWrap == WrapInit /\ [][WrapNext]_vars

\* -------------------------------------------------- wrap_set: the properties

\* the position of e in the document order of d
DocPos(d, e) == CHOOSE k \in 1..Len(iter(d, 1)) : iter(d, 1)[k] = e

\* a and b, in this order, were children of one parent with nothing between them
WasAdjacent(a, b) ==
    /\ parent(ws.orig, a) # None
    /\ parent(ws.orig, a) = parent(ws.orig, b)
    /\ index(ws.orig, b) = index(ws.orig, a) + 1

\* a and b were children of one parent with only li elements from a to b
WasSameRun(a, b) ==
    /\ parent(ws.orig, a) # None
    /\ parent(ws.orig, a) = parent(ws.orig, b)
    /\ \A k \in 1..Len(ws.orig.kids[parent(ws.orig, a)]) :
         (k >= index(ws.orig, a) /\ k <= index(ws.orig, b))
           => ws.orig.tag[ws.orig.kids[parent(ws.orig, a)][k]] = "li"

WrapLis == {e \in 1..Len(ws.orig.tag) : ws.orig.tag[e] = "li"}

\* C7 as stated: after wrap_set every li is the child of a new ul, two li that
\* were adjacent are in one ul, two li in one ul were in one unbroken run of
\* li under one parent, and the li keep their document order.
C7_Original ==
    ws.pc = "done" =>
        /\ \A e \in WrapLis :
             /\ parent(ws.dom, e) > Len(ws.orig.tag)
             /\ ws.dom.tag[parent(ws.dom, e)] = "ul"
        /\ \A a, b \in WrapLis :
             WasAdjacent(a, b) => parent(ws.dom, a) = parent(ws.dom, b)
        /\ \A a, b \in WrapLis :
             (DocPos(ws.orig, a) < DocPos(ws.orig, b)
                /\ parent(ws.dom, a) = parent(ws.dom, b)) => WasSameRun(a, b)
        /\ \A a, b \in WrapLis :
             DocPos(ws.orig, a) < DocPos(ws.orig, b) => DocPos(ws.dom, a) < DocPos(ws.dom, b)

\* ----------------------------------------------------------- remove_headers

\* ' '.join(texts)
RECURSIVE join(_)
join(ts) ==
    IF ts = <<>> THEN <<>>
    ELSE IF Len(ts) = 1 THEN ts[1]
    ELSE ts[1] \o <<" ">> \o join(Tail(ts))

\* ''.join(a for a in header_txt if not a.isdigit()).strip()
strip_digits(txt) == strip(SelectSeq(txt, LAMBDA a : ~IsDigit(a)))

\* texts[-1] in txt
contains(txt, sub) ==
    \E k \in 0..(Len(txt) - Len(sub)) : SubSeq(txt, k + 1, k + Len(sub)) = sub

\* the children of a page with the y class of the first child: positions
topmost(page) == {k \in 1..Len(page) : page[k].y = page[1].y}

\* the joined, digit-stripped, trimmed text of the topmost elements
header_txt(page) ==
    strip_digits(join([k \in 1..Cardinality(topmost(page)) |->
        page[CHOOSE j \in topmost(page) :
               Cardinality({i \in topmost(page) : i < j}) = k - 1].txt]))

\* the first children a page may start with, and the second child it may have
HdFirst == { [y |-> 0, txt |-> t] :
               t \in {<<>>, <<"a">>, <<"b">>, <<"a", "1">>, <<"a", "b">>} }

HdSecond == { [y |-> y, txt |-> t] : y \in {0, 1}, t \in {<<>>, <<"b">>} }

\* a page is the sequence of its children; a page without a child is not
\* matched by '.pc > *:first-child'
HdPageSet == {<<>>} \cup {<<f>> : f \in HdFirst}
               \cup {<<f, g>> : f \in HdFirst, g \in HdSecond}

HdInit ==
    /\ \E pages \in [1..HdPages -> HdPageSet] :
         hd = [pc |-> "collect", pages |-> pages, n |-> 0, leading |-> <<>>,
               removed |-> {}]
    /\ sem = Off /\ gd = Off /\ tb = Off /\ ws = Off /\ hl = Off

\* one iteration of the loop over '.pc > *:first-child'
HdCollect ==
    /\ hd.pc = "collect" /\ hd.n < HdPages
    /\ LET n == hd.n + 1
           page == hd.pages[n]
       IN  hd' = [hd EXCEPT
                    !.n = n,
                    !.leading = IF page = <<>> THEN hd.leading
                                ELSE Append(hd.leading,
                                            [page |-> n, topmost |-> topmost(page),
                                             txt |-> header_txt(page)])]
    /\ UNCHANGED <<sem, gd, tb, ws, hl>>

\* texts, the test on texts[1:], and the removal
headers_to_remove(leading) ==
    LET nonempty == SelectSeq(leading, LAMBDA e : e.txt # <<>>)
        texts    == [k \in 1..Len(nonempty) |-> nonempty[k].txt]
    IN  IF Len(texts) > 1 /\ \A k \in 2..Len(texts) : texts[k] = texts[Len(texts)]
        THEN UNION { {<<leading[i].page, j>> : j \in leading[i].topmost} :
                       i \in {k \in 1..Len(leading) :
                                contains(leading[k].txt, texts[Len(texts)])} }
        ELSE {}

HdRemove ==
    /\ hd.pc = "collect" /\ hd.n = HdPages
    /\ hd' = [hd EXCEPT !.pc = "done", !.removed = headers_to_remove(hd.leading)]
    /\ UNCHANGED <<sem, gd, tb, ws, hl>>

HdNext == HdCollect \/ HdRemove

SpecHeaders == HdInit /\ [][HdNext]_vars

\* ------------------------------------------- remove_headers: the properties

\* the leading text of page p: empty for a page without elements
LeadingText(p) == IF hd.pages[p] = <<>> THEN <<>> ELSE header_txt(hd.pages[p])

TopmostOf(p) == IF hd.pages[p] = <<>> THEN {} ELSE {<<p, j>> : j \in topmost(hd.pages[p])}

\* C2 as stated, for a document of HdPages >= 3 pages: when pages 2..N share
\* one non-empty leading text that page 1 does not have, the topmost elements
\* of pages 2..N are removed and those of page 1 are not; when two pages among
\* 2..N have different leading texts, nothing is removed.  Read in favour of
\* the code where the design text sides with it: page 1 "differs" when its
\* leading text does not contain the shared one, and two pages "differ" when
\* both leading texts are non-empty.
C2_Original ==
    hd.pc = "done" =>
        /\ ( /\ \A p \in 2..HdPages : LeadingText(p) = LeadingText(2)
             /\ LeadingText(2) # <<>>
             /\ ~contains(LeadingText(1), LeadingText(2)) )
             => hd.removed = UNION {TopmostOf(p) : p \in 2..HdPages}
        /\ ( \E p, q \in 2..HdPages :
               /\ LeadingText(p) # <<>> /\ LeadingText(q) # <<>>
               /\ LeadingText(p) # LeadingText(q) )
             => hd.removed = {}

\* ----------------------------------------------------------- heading_levels

\* the font-size rules a stylesheet may hold: dimensions['fs'] as the sequence
\* of its items, each class once
FsTables ==
    { t \in UNION { [1..n -> [cssn : 0..(MaxFs - 1), fs : {10, 20, 30}]] : n \in 0..MaxFs } :
        \A i, j \in 1..Len(t) : i # j => t[i].cssn # t[j].cssn }

\* len(dom.cssselect('.fs' + cssn)) for each class
FsCounts == [0..(MaxFs - 1) -> 0..2]

\* sorted(fs_stats, key=lambda x: x[0], reverse=True)[0]: the first of the
\* items with the greatest count (the sort is stable)
top_stat(fs_stats) ==
    fs_stats[CHOOSE k \in 1..Len(fs_stats) :
               /\ \A j \in 1..Len(fs_stats) : fs_stats[j].count <= fs_stats[k].count
               /\ \A j \in 1..(k - 1) : fs_stats[j].count < fs_stats[k].count]

\* reversed(seq)
reversed(seq) == [k \in 1..Len(seq) |-> seq[Len(seq) + 1 - k]]

\* headings = [x for x in reversed(fs_stats) if x[-1] > prevalent_fs]
headings_of(fs_stats, prevalent_fs) ==
    SelectSeq(reversed(fs_stats), LAMBDA x : x.fs > prevalent_fs)

HlInit ==
    /\ \E t \in FsTables, c \in FsCounts :
         hl = [pc |-> "stats", fs |-> t, count |-> c, prevalent_fs |-> 0,
               headings |-> <<>>, h_levels |-> <<>>, level |-> 1]
    /\ sem = Off /\ gd = Off /\ hd = Off /\ tb = Off /\ ws = Off

\* fs_stats, top_stats, prevalent_fs and headings
HlStats ==
    /\ hl.pc = "stats" /\ hl.fs # <<>>
    /\ LET fs_stats == [k \in 1..Len(hl.fs) |->
                          [count |-> hl.count[hl.fs[k].cssn], cssn |-> hl.fs[k].cssn,
                           fs |-> hl.fs[k].fs]]
           prevalent_fs == top_stat(fs_stats).fs
       IN  hl' = [hl EXCEPT !.prevalent_fs = prevalent_fs,
                            !.headings = headings_of(fs_stats, prevalent_fs),
                            !.pc = IF headings_of(fs_stats, prevalent_fs) = <<>>
                                   THEN "done" ELSE "levels"]
    /\ UNCHANGED <<sem, gd, hd, tb, ws>>

\* top_stats[0] on a stylesheet without a font-size rule: IndexError
HlRaise ==
    /\ hl.pc = "stats" /\ hl.fs = <<>>
    /\ hl' = [hl EXCEPT !.pc = "raised"]
    /\ UNCHANGED <<sem, gd, hd, tb, ws>>

\* one iteration of the loop over headings
HlLevel ==
    /\ hl.pc = "levels"
    /\ hl' = [hl EXCEPT
                !.h_levels = (hl.headings[hl.level].cssn :> hl.level) @@ hl.h_levels,
                !.level = hl.level + 1,
                !.pc = IF hl.level = Len(hl.headings) THEN "done" ELSE "levels"]
    /\ UNCHANGED <<sem, gd, hd, tb, ws>>

HlNext == HlStats \/ HlRaise \/ HlLevel

SpecHeadings == HlInit /\ [][HlNext]_vars

\* ------------------------------------------- heading_levels: the properties

\* the pixel size of a font-size class of the stylesheet
FsPx(cssn) == hl.fs[CHOOSE k \in 1..Len(hl.fs) : hl.fs[k].cssn = cssn].fs

\* C8 as stated: of two classes in the heading-level map the one with the
\* larger pixel size has the smaller level, whatever the order of the rules.
C8_Original ==
    hl.pc = "done" =>
        \A a, b \in DOMAIN hl.h_levels :
            FsPx(a) > FsPx(b) => hl.h_levels[a] < hl.h_levels[b]

\* -------------------------------------------------------- reconstruct_tables

\* The documents of the table runs: body (element 1) holds two pages
\* (elements 2 and 3); an item is a .t line or a clip box (.c) of one or two
\* .t lines; the items of page 1 come first.

TbTexts == {<<>>, <<"a">>}

TbBare == { [kind |-> "t", x |-> x, y |-> y, txt |-> t] :
              x \in {0, 1}, y \in {0, 1}, t \in TbTexts }

TbClipLines ==
    { <<[x |-> x, txt |-> t]>> : x \in {0, 1}, t \in TbTexts }
      \cup { <<[x |-> x1, txt |-> t], [x |-> x2, txt |-> <<"a">>]>> :
               x1 \in {0, 1}, x2 \in {0, 1}, t \in TbTexts }

\* a clip box has bottom class 1: it is level with the lines of bottom class 0
TbClip == { [kind |-> "c", x |-> 1, y |-> 1, lines |-> ls] : ls \in TbClipLines }

TbItems == TbBare \cup TbClip

\* the stylesheet of the table runs: every line is 10 px high
TbDimensions ==
    [x |-> (0 :> 0) @@ (1 :> 50), y |-> (0 :> 700) @@ (1 :> 710), h |-> (0 :> 10)]

EmptyDoc ==
    [tag   |-> <<"body", "div", "div">>,
     class |-> <<<<>>, PageClass(<<"1">>), PageClass(<<"2">>)>>,
     text  |-> <<<<>>, <<>>, <<>>>>,
     kids  |-> <<<<2, 3>>, <<>>, <<>>>>]

\* d with a new div of a class and a text at the end of the children of p
add_div(d, p, cls, txt) ==
    LET e == Len(d.tag) + 1
    IN  [tag |-> Append(d.tag, "div"), class |-> Append(d.class, cls),
         text |-> Append(d.text, txt),
         kids |-> [Append(d.kids, <<>>) EXCEPT ![p] = Append(d.kids[p], e)]]

RECURSIVE add_lines(_, _, _)
add_lines(d, cb, ls) ==
    IF ls = <<>> THEN d
    ELSE add_lines(add_div(d, cb, LineClass(Head(ls).x, 0, 0, 0, 0), Head(ls).txt),
                   cb, Tail(ls))

add_item(d, page, it) ==
    IF it.kind = "t" THEN add_div(d, page, LineClass(it.x, 0, it.y, 0, 0), it.txt)
    ELSE add_lines(add_div(d, page, ClipClass(it.x, it.y), <<>>),
                   Len(d.tag) + 1, it.lines)

\* the tree of the items, the first n1 of them on page 1
RECURSIVE build_doc(_, _, _)
build_doc(items, n1, k) ==
    IF k = 0 THEN EmptyDoc
    ELSE add_item(build_doc(items, n1, k - 1), IF k <= n1 THEN 2 ELSE 3, items[k])

\* the items of a document, in document order
TbItemSeqs == UNION { [1..n -> TbItems] : n \in 1..MaxItems }

\* dom.cssselect('.t')
select_t(d) ==
    SelectSeq(iter(d, 1), LAMBDA e : \E k \in 1..Len(d.class[e]) : d.class[e][k].c = "t")

\* the pc number of the nearest ancestor whose class starts with 'pc '
RECURSIVE page_hex(_, _)
page_hex(d, e) ==
    LET p == parent(d, e)
    IN  IF p = None THEN <<>>
        ELSE IF Len(d.class[p]) >= 2 /\ d.class[p][1].c = "pc" THEN classn("pc", d.class[p])
        ELSE page_hex(d, p)

\* what grid_data reads of line e
line_of(d, e) ==
    [class |-> d.class[e], txt |-> d.text[e], elem |-> e, pc |-> page_hex(d, e),
     parent |-> [class |-> d.class[parent(d, e)], elem |-> parent(d, e)]]

\* grid_data(dom, get_dimension)
grid_data(d, dimensions) ==
    [k \in 1..Len(select_t(d)) |-> grid_ns(dimensions, line_of(d, select_t(d)[k]))]

\* (c.page, c.y, c.x) <= (b.page, b.y, b.x)
key_le(c, b) ==
    \/ c.page < b.page
    \/ c.page = b.page /\ c.y < b.y
    \/ c.page = b.page /\ c.y = b.y /\ c.x <= b.x

\* sorted(data, key=...): stable
RECURSIVE sorted(_)
sorted(data) ==
    IF data = <<>> THEN <<>>
    ELSE LET rest == sorted(SubSeq(data, 1, Len(data) - 1))
             c    == data[Len(data)]
             n    == Cardinality({k \in 1..Len(rest) : key_le(rest[k], c)})
         IN  SubSeq(rest, 1, n) \o <<c>> \o SubSeq(rest, n + 1, Len(rest))

\* rows.setdefault(key, []).append(c): rows is the sequence of its items
rows_add(rows, c) ==
    IF \E k \in 1..Len(rows) : rows[k].key = <<c.page, c.y>>
    THEN [k \in 1..Len(rows) |->
            IF rows[k].key = <<c.page, c.y>>
            THEN [rows[k] EXCEPT !.row = Append(rows[k].row, c)] ELSE rows[k]]
    ELSE Append(rows, [key |-> <<c.page, c.y>>, row |-> <<c>>])

RECURSIVE make_rows(_)
make_rows(cs) == IF cs = <<>> THEN <<>> ELSE rows_add(make_rows(SubSeq(cs, 1, Len(cs) - 1)), cs[Len(cs)])

\* cboxes.setdefault(c.clipbox, []).append(c.elem); None is a key like the others
make_cboxes(cs) ==
    [cb \in {cs[k].clipbox : k \in 1..Len(cs)} |->
        LET of == SelectSeq(cs, LAMBDA c : c.clipbox = cb)
        IN  [k \in 1..Len(of) |-> of[k].elem]]

\* the loop "collect cell lines with same clip boxes" on one row: m is
\* [merged, row], cells the row as it was when the loop reached it
RECURSIVE merge_row(_, _, _)
merge_row(m, cells, cboxes) ==
    IF cells = <<>> THEN m
    ELSE LET cell == Head(cells)
         IN  IF cell.clipbox \in m.merged
             THEN merge_row([m EXCEPT !.row = SelectSeq(m.row, LAMBDA c : c.elem # cell.elem)],
                            Tail(cells), cboxes)
             ELSE merge_row([merged |-> m.merged \cup {cell.clipbox},
                             row |-> [k \in 1..Len(m.row) |->
                                        IF m.row[k].elem = cell.elem
                                        THEN [m.row[k] EXCEPT !.lines = cboxes[cell.clipbox]]
                                        ELSE m.row[k]]],
                            Tail(cells), cboxes)

RECURSIVE merge_rows(_, _, _)
merge_rows(rows, merged, cboxes) ==
    IF rows = <<>> THEN <<>>
    ELSE LET m == merge_row([merged |-> merged, row |-> Head(rows).row],
                            Head(rows).row, cboxes)
         IN  <<[key |-> Head(rows).key, row |-> m.row]>>
               \o merge_rows(Tail(rows), m.merged, cboxes)

\* for line in cell.lines[1:]: clear the class, append a br, append the line
RECURSIVE add_cell_lines(_, _, _)
add_cell_lines(d, cell, lines) ==
    IF lines = <<>> THEN d
    ELSE LET line == Head(lines)
             d1   == [d EXCEPT !.class[line] = <<>>]
             d2   == IF BR THEN append(Element(d1, "br"), cell, Len(d1.tag) + 1) ELSE d1
         IN  add_cell_lines(append(d2, cell, line), cell, Tail(lines))

\* for cell in row: the td, its lines, tr.append
RECURSIVE add_cells(_, _, _)
add_cells(d, tr, cells) ==
    IF cells = <<>> THEN d
    ELSE LET cell == Head(cells)
             d1   == [d EXCEPT !.tag[cell.elem] = "td", !.class[cell.elem] = <<>>]
             d2   == add_cell_lines(d1, cell.elem, Tail(cell.lines))
         IN  add_cells(append(d2, tr, cell.elem), tr, Tail(cells))

\* len([c for c in row if c.text]) > 1
is_table_row(row) == Len(SelectSeq(row, LAMBDA c : c.text # <<>>)) > 1

\* the body of the loop over rows.values()
convert_row(d, row) ==
    IF is_table_row(row)
    THEN LET tr == parent(d, row[1].elem)
         IN  add_cells([d EXCEPT !.tag[tr] = "tr"], tr, row)
    ELSE d

\* e.drop_tag(): the children of e take its place; its text goes to its
\* parent when e is a first child (a tail is not kept in this tree)
drop_tag(d, e) ==
    LET p == parent(d, e)
        k == index(d, e)
    IN  [d EXCEPT !.kids[p] = SubSeq(d.kids[p], 1, k - 1) \o d.kids[e]
                                \o SubSeq(d.kids[p], k + 1, Len(d.kids[p])),
                  !.kids[e] = <<>>,
                  !.text[p] = IF k = 1 THEN d.text[p] \o d.text[e] ELSE d.text[p]]

\* e.tag in ('span', 'div') and not text or text == ' '
is_dropped(d, e) ==
    \/ d.tag[e] \in {"span", "div"} /\ text_content(d, e) = <<>>
    \/ text_content(d, e) = <<" ">>

\* the loop "drop empty span, divs" over dom.iter(): the iterator has the
\* next element in hand before the body runs, so the elements are visited in
\* the document order of the tree the loop started on
RECURSIVE drop_empty(_, _)
drop_empty(d, es) ==
    IF es = <<>> THEN d
    ELSE IF Head(es) # 1 /\ is_dropped(d, Head(es))
         THEN drop_empty(drop_tag(d, Head(es)), Tail(es))
         ELSE drop_empty(d, Tail(es))

\* all the items are on page 1, or the last one is on page 2
TbInit ==
    /\ \E items \in TbItemSeqs : \E n1 \in {Len(items) - 1, Len(items)} :
         LET d == build_doc(items, n1, Len(items))
         IN  tb = [pc |-> "grid", orig |-> d, dom |-> d, data |-> <<>>, rows |-> <<>>,
                   cboxes |-> <<>>, r |-> 0]
    /\ sem = Off /\ gd = Off /\ hd = Off /\ ws = Off /\ hl = Off

\* table_data = grid_data(dom, get_dimension)
TbGrid ==
    /\ tb.pc = "grid"
    /\ tb' = [tb EXCEPT !.data = grid_data(tb.dom, TbDimensions), !.pc = "rows"]
    /\ UNCHANGED <<sem, gd, hd, ws, hl>>

\* the sort, the rows and the clip-box groups
TbRows ==
    /\ tb.pc = "rows"
    /\ tb' = [tb EXCEPT !.rows = make_rows(sorted(tb.data)),
                        !.cboxes = make_cboxes(sorted(tb.data)),
                        !.pc = "merge"]
    /\ UNCHANGED <<sem, gd, hd, ws, hl>>

\* the loop that keeps one cell for each clip box
TbMerge ==
    /\ tb.pc = "merge"
    /\ tb' = [tb EXCEPT !.rows = merge_rows(tb.rows, {}, tb.cboxes),
                        !.pc = IF tb.rows = <<>> THEN "drop" ELSE "convert"]
    /\ UNCHANGED <<sem, gd, hd, ws, hl>>

\* one iteration of the loop over rows.values()
TbConvert ==
    /\ tb.pc = "convert"
    /\ tb' = [tb EXCEPT !.dom = convert_row(tb.dom, tb.rows[tb.r + 1].row),
                        !.r = tb.r + 1,
                        !.pc = IF tb.r + 1 = Len(tb.rows) THEN "drop" ELSE "convert"]
    /\ UNCHANGED <<sem, gd, hd, ws, hl>>

\* the loop that drops the empty span and div
TbDrop ==
    /\ tb.pc = "drop"
    /\ tb' = [tb EXCEPT !.dom = drop_empty(tb.dom, iter(tb.dom, 1)), !.pc = "wrap"]
    /\ UNCHANGED <<sem, gd, hd, ws, hl>>

\* wrap_set(dom, 'tr', 'table')
TbWrap ==
    /\ tb.pc = "wrap"
    /\ tb' = [tb EXCEPT !.dom = wrap_set(tb.dom, "tr", "table"), !.pc = "done"]
    /\ UNCHANGED <<sem, gd, hd, ws, hl>>

TbNext == TbGrid \/ TbRows \/ TbMerge \/ TbConvert \/ TbDrop \/ TbWrap

SpecTables == TbInit /\ [][TbNext]_vars

\* ------------------------------------------- reconstruct_tables: properties

\* the lines of the document reconstruct_tables was given, in document order
TbLines == select_t(tb.orig)

\* the record grid_data makes of line e of that document
OrigNs(e) == grid_ns(TbDimensions, line_of(tb.orig, e))

\* the lines of the row bucket (page, y) of line e
Bucket(e) ==
    { TbLines[k] : k \in { j \in 1..Len(TbLines) :
                             /\ OrigNs(TbLines[j]).page = OrigNs(e).page
                             /\ OrigNs(TbLines[j]).y = OrigNs(e).y } }

NonEmpty(S) == { e \in S : tb.orig.text[e] # <<>> }

IsBare(e) == OrigNs(e).clipbox = None

\* the clip boxes of the document reconstruct_tables was given
TbClipBoxes == { e \in 1..Len(tb.orig.tag) : is_clipbox(tb.orig.class[e]) }

BrCount(e) == Len(SelectSeq(tb.dom.kids[e], LAMBDA c : tb.dom.tag[c] = "br"))

NotBr(e) == SelectSeq(tb.dom.kids[e], LAMBDA c : tb.dom.tag[c] # "br")

\* C3 (as stated): when reconstruct_tables has returned, every clip box whose
\* k lines all have text and of which a line became a cell has exactly one
\* cell, its first line in document order, that holds the other lines in
\* document order and k-1 line breaks, whatever the lines' left offsets.
C3_Original ==
    tb.pc = "done" =>
      \A cb \in TbClipBoxes :
        LET ls == tb.orig.kids[cb]
        IN  (/\ \A k \in 1..Len(ls) : tb.orig.text[ls[k]] # <<>>
             /\ \E k \in 1..Len(ls) : tb.dom.tag[ls[k]] = "td")
            => /\ tb.dom.tag[ls[1]] = "td"
               /\ \A k \in 2..Len(ls) : tb.dom.tag[ls[k]] # "td"
               /\ NotBr(ls[1]) = Tail(ls)
               /\ BrCount(ls[1]) = Len(ls) - 1

\* C4 (as stated): when reconstruct_tables has returned, a line with text of
\* a row bucket with fewer than two non-empty members is still a div with
\* its class, under the parent it had.
C4_Original ==
    tb.pc = "done" =>
      \A k \in 1..Len(TbLines) :
        LET e == TbLines[k]
        IN  (Cardinality(NonEmpty(Bucket(e))) < 2 /\ tb.orig.text[e] # <<>>)
            => /\ tb.dom.tag[e] = "div"
               /\ tb.dom.class[e] = tb.orig.class[e]
               /\ parent(tb.dom, e) = parent(tb.orig, e)

\* C9 (as stated): when reconstruct_tables has returned, of every row bucket
\* made only of lines without a clip box, two or more of them with text, the
\* parent is a tr and every member is a td of that tr, from left to right.
C9_Original ==
    tb.pc = "done" =>
      \A k \in 1..Len(TbLines) :
        LET e == TbLines[k]
            B == Bucket(e)
        IN  ((\A f \in B : IsBare(f)) /\ Cardinality(NonEmpty(B)) >= 2)
            => /\ tb.dom.tag[parent(tb.orig, e)] = "tr"
               /\ \A f \in B : /\ tb.dom.tag[f] = "td"
                               /\ parent(tb.dom, f) = parent(tb.orig, e)
               /\ \A f \in B : \A g \in B :
                    OrigNs(f).x < OrigNs(g).x => index(tb.dom, f) < index(tb.dom, g)

====
